---- MODULE Spec2Model ----
(***************************************************************************)
(* VisionTour: the three-stage tour pipeline of App.tsx (handleFileUpload, *)
(* playNarration, resetTour and the controls the component renders) and    *)
(* the narration prompt of geminiService.ts.                               *)
(*                                                                         *)
(* A run of handleFileUpload is a coroutine: it executes up to its next    *)
(* await, and resumes when the awaited call resolves or rejects.  Several  *)
(* runs can be suspended at once; each is identified by its number.        *)
(* Content values are tagged with the number of the run that produced      *)
(* them, so that the origin of every field of the state can be read off.   *)
(*                                                                         *)
(* The handlers are reachable only through the controls that App renders.  *)
(* An update made inside an event handler is on screen before the next     *)
(* event is handled.  An update made by a resumed run (after an await) is  *)
(* put on screen by a render of its own, which may come right away or      *)
(* after a further event: until then the controls of the previous render   *)
(* are the ones the user can act on.                                       *)
(***************************************************************************)
EXTENDS Integers, Sequences, FiniteSets, TLC

VARIABLES
    state,           \* the TourState held by useState (App.tsx:20-27)
    controls,        \* the controls put on screen by the last committed render
    audioContextRef, \* TRUE once the AudioContext exists (App.tsx:29)
    audioSourceRef,  \* <<>> for null, or <<node>>: the current source node
    detached,        \* the nodes still playing that the ref no longer holds
    pc,              \* position of each run of handleFileUpload
    nRuns,           \* number of runs started so far
    stale,           \* history: the runs that were suspended at a resetTour
    text,            \* argument of the narrateHistory call under study
    prompt           \* text part sent to the speech model by that call

vars == <<state, controls, audioContextRef, audioSourceRef, detached, pc, nRuns,
          stale, text, prompt>>

----------------------------------------------------------------------------
(* Bounds *)

MaxRuns == 2

MaxNameLen == 2

MaxStoryLen == 1002

----------------------------------------------------------------------------
(* Values *)

\* null, for every nullable field of TourState
Null == <<>>

Stages == {"idle", "identifying", "researching", "narrating", "ready"}

Runs == 1..MaxRuns

\* the awaits of handleFileUpload, in order, then its two exits
Awaits == {"fileToBase64", "identifyLandmark", "researchLandmark",
           "narrateHistory", "decodeAudioData"}

PcValues == {"unused"} \cup Awaits \cup {"done", "failed"}

\* the runs suspended at an await: each has one call outstanding and
\* state writes still to come
InFlight == {r \in Runs : pc[r] \in Awaits}

\* useState<TourState>({...})
InitialState ==
    [image |-> Null, landmark |-> Null, history |-> Null,
     audioBuffer |-> Null, loadingStage |-> "idle", error |-> Null]

\* the data URL built from the file of run r
ImageOf(r) == <<r>>

\* the value identifyLandmark resolved with in run r: JSON.parse of the
\* response text, which is returned as it is, with all required fields
\* ("complete") or without some of them ("incomplete", {} for an empty text)
LandmarkOf(r, payload) == <<r, payload>>

HistoryOf(r) == <<r>>

BufferOf(r) == <<r>>

\* err.message of the failure of run r at the given await
MessageOf(r, at) == <<r, at>>

----------------------------------------------------------------------------
(* Playback *)

\* source.buffer = buffer; source.start()
StartedNode(buffer) == [buffer |-> buffer, playing |-> TRUE]

\* a stop that is never carried out: the ref as it is
StopCurrentSkipped == audioSourceRef

\* audioSourceRef.current.stop() inside try/catch, skipped when the ref is
\* null: the ref afterwards.  A node that has already ended stays as it is
\* and nothing is thrown.
StopCurrent ==
    [i \in 1..Len(audioSourceRef) |->
       [audioSourceRef[i] EXCEPT !.playing = FALSE]]

\* the nodes among s that are playing
Playing(s) == SelectSeq(s, LAMBDA n : n.playing)

\* every node that is playing, referenced or not
ActiveNodes == Playing(audioSourceRef) \o detached

\* playNarration that starts the new node without stopping the current one
PlayNarrationWithoutStop(buffer) ==
    IF ~audioContextRef
    THEN [ref |-> audioSourceRef, detached |-> detached]
    ELSE [ref |-> <<StartedNode(buffer)>>,
          detached |-> detached \o Playing(audioSourceRef)]

\* playNarration(buffer): the ref and the detached nodes after the call
PlayNarration(buffer) ==
    IF ~audioContextRef
    THEN [ref |-> audioSourceRef, detached |-> detached]
    ELSE [ref |-> <<StartedNode(buffer)>>,
          detached |-> detached \o Playing(StopCurrent)]

----------------------------------------------------------------------------
(* Controls: what the JSX of App renders for a given TourState *)

\* fileInput: <input type="file" onChange={handleFileUpload}> in the footer
\* reset:     a button bound to resetTour (header X, "Reintentar Captura",
\*            footer "Nueva")
\* replay:    the buffer that the "Repetir" button passes to playNarration,
\*            state.audioBuffer of the render that created the button, or
\*            null when the button is not rendered
Controls(s) ==
    [fileInput |-> s.loadingStage = "idle",
     reset |-> \/ s.image # Null
               \/ s.error # Null
               \/ s.loadingStage # "idle",
     replay |-> IF s.loadingStage # "idle" THEN s.audioBuffer ELSE Null]

----------------------------------------------------------------------------
(* The narration prompt *)

NarrationCap == 1000

\* "Speak in a warm, professional tour guide voice: "
Prefix ==
    <<"S","p","e","a","k"," ","i","n"," ","a"," ","w","a","r","m",","," ",
      "p","r","o","f","e","s","s","i","o","n","a","l"," ","t","o","u","r"," ",
      "g","u","i","d","e"," ","v","o","i","c","e",":"," ">>

Min(a, b) == IF a < b THEN a ELSE b

\* substring with the end index one too far
Substring0OffByOne(s, n) == SubSeq(s, 1, Min(Len(s), n + 1))

\* String.prototype.substring(0, n)
Substring0(s, n) == SubSeq(s, 1, Min(Len(s), n))

\* the text of the single part of `contents` in narrateHistory(t)
NarrationPrompt(t) == Prefix \o Substring0(t, NarrationCap)

Alphabet == <<"a", "b", "c">>

NameChars(n) == [i \in 1..n |-> "N"]

StoryChars(n) == [i \in 1..n |-> Alphabet[(i % 3) + 1]]

\* `${landmark.name}. ${history.fullStory}`
NarrationText(name, story) == name \o <<".", " ">> \o story

----------------------------------------------------------------------------
(* Initial state *)

InitTour ==
    /\ state = InitialState
    /\ controls = Controls(InitialState)
    /\ audioContextRef = FALSE
    /\ audioSourceRef = <<>>
    /\ detached = <<>>
    /\ pc = [r \in Runs |-> "unused"]
    /\ nRuns = 0
    /\ stale = {}

Init ==
    /\ InitTour
    /\ text = <<>>
    /\ prompt = <<>>

----------------------------------------------------------------------------
(* handleFileUpload *)

\* the await that follows each await of handleFileUpload
AfterAwait ==
    [fileToBase64 |-> "identifyLandmark", identifyLandmark |-> "researchLandmark",
     researchLandmark |-> "narrateHistory", narrateHistory |-> "decodeAudioData",
     decodeAudioData |-> "done"]

\* a catch block that records the error and leaves the stage as it is
CatchStateKeepingStage(prev, message) ==
    [prev EXCEPT !.error = message]

\* setState(prev => ({...prev, error: err.message, loadingStage: 'idle'}))
CatchState(prev, message) ==
    [prev EXCEPT !.error = message, !.loadingStage = "idle"]

\* a catch around the single call instead of the whole pipeline: the error is
\* recorded and the run goes on with its next call
CatchAndGoOn(r, at) ==
    /\ state' = CatchState(state, MessageOf(r, at))
    /\ pc' = [pc EXCEPT ![r] = AfterAwait[pc[r]]]
    /\ UNCHANGED <<controls, audioContextRef, audioSourceRef, detached, nRuns,
                   stale, text, prompt>>

\* catch (err): setState(prev => ({...prev, error: err.message,
\*                                 loadingStage: 'idle'}))
Catch(r, at) ==
    /\ state' = CatchState(state, MessageOf(r, at))
    /\ pc' = [pc EXCEPT ![r] = "failed"]
    /\ UNCHANGED <<controls, audioContextRef, audioSourceRef, detached, nRuns,
                   stale, text, prompt>>

\* a run start that forgets to clear error
StartStateKeepingError(prev) ==
    [prev EXCEPT !.loadingStage = "identifying", !.image = Null]

\* setState(prev => ({...prev, loadingStage: 'identifying', image: null,
\*                    error: null}))
StartState(prev) ==
    [prev EXCEPT !.loadingStage = "identifying", !.image = Null,
                 !.error = Null]

\* the change event of the file input, up to the first await.  The handler
\* runs inside a React event, so its update is committed before the next
\* event is handled.
handleFileUpload ==
    /\ controls.fileInput
    /\ \E file \in BOOLEAN :
         IF ~file
         THEN UNCHANGED vars
         ELSE /\ nRuns < MaxRuns
              /\ nRuns' = nRuns + 1
              /\ state' = StartState(state)
              /\ controls' = Controls(state')
              /\ audioContextRef' = TRUE
              /\ pc' = [pc EXCEPT ![nRuns + 1] = "fileToBase64"]
              /\ UNCHANGED <<audioSourceRef, detached, stale, text, prompt>>

\* await fileToBase64(file) returns or throws
FileRead(r) ==
    /\ pc[r] = "fileToBase64"
    /\ \E ok \in BOOLEAN :
         IF ok
         THEN /\ state' = [state EXCEPT !.image = ImageOf(r)]
              /\ pc' = [pc EXCEPT ![r] = "identifyLandmark"]
              /\ UNCHANGED <<controls, audioContextRef, audioSourceRef, detached,
                             nRuns, stale, text, prompt>>
         ELSE Catch(r, "fileToBase64")

\* await identifyLandmark(base64) returns or throws: the request fails
\* ("network"), JSON.parse throws ("unparsable"), or the parsed payload is
\* returned, whatever fields it has
Identified(r) ==
    /\ pc[r] = "identifyLandmark"
    /\ \E outcome \in {"complete", "incomplete", "network", "unparsable"} :
         IF outcome \in {"complete", "incomplete"}
         THEN /\ state' = [state EXCEPT !.landmark = LandmarkOf(r, outcome),
                                        !.loadingStage = "researching"]
              /\ pc' = [pc EXCEPT ![r] = "researchLandmark"]
              /\ UNCHANGED <<controls, audioContextRef, audioSourceRef, detached,
                             nRuns, stale, text, prompt>>
         ELSE Catch(r, "identifyLandmark")

\* await researchLandmark(landmark.name) returns or throws
Researched(r) ==
    /\ pc[r] = "researchLandmark"
    /\ \E ok \in BOOLEAN :
         IF ok
         THEN /\ state' = [state EXCEPT !.history = HistoryOf(r),
                                        !.loadingStage = "narrating"]
              /\ pc' = [pc EXCEPT ![r] = "narrateHistory"]
              /\ UNCHANGED <<controls, audioContextRef, audioSourceRef, detached,
                             nRuns, stale, text, prompt>>
         ELSE Catch(r, "researchLandmark")

\* await narrateHistory(...) returns or throws (request failure, or "No audio
\* data generated."); on return decodeBase64 runs and may throw, and
\* decodeAudioData is called
Narrated(r) ==
    /\ pc[r] = "narrateHistory"
    /\ \E outcome \in {"audio", "undecodable", "network", "noaudio"} :
         IF outcome = "audio"
         THEN /\ pc' = [pc EXCEPT ![r] = "decodeAudioData"]
              /\ UNCHANGED <<state, controls, audioContextRef, audioSourceRef,
                             detached, nRuns, stale, text, prompt>>
         ELSE Catch(r, IF outcome = "undecodable" THEN "decodeBase64"
                       ELSE "narrateHistory")

\* await decodeAudioData(...) returns or throws; on return the buffer is
\* stored and played
Decoded(r) ==
    /\ pc[r] = "decodeAudioData"
    /\ \E ok \in BOOLEAN :
         IF ok
         THEN /\ state' = [state EXCEPT !.audioBuffer = BufferOf(r),
                                        !.loadingStage = "ready"]
              /\ audioSourceRef' = PlayNarration(BufferOf(r)).ref
              /\ detached' = PlayNarration(BufferOf(r)).detached
              /\ pc' = [pc EXCEPT ![r] = "done"]
              /\ UNCHANGED <<controls, audioContextRef, nRuns, stale, text,
                             prompt>>
         ELSE Catch(r, "decodeAudioData")

----------------------------------------------------------------------------
(* resetTour, replay, rendering, end of playback *)

\* a reset written as an update of prev that forgets to clear error
ResetTourStateKeepingError(prev) ==
    [image |-> Null, landmark |-> Null, history |-> Null,
     audioBuffer |-> Null, loadingStage |-> "idle", error |-> prev.error]

\* the object resetTour passes to setState; prev is the state it replaces
ResetTourState(prev) ==
    [image |-> Null, landmark |-> Null, history |-> Null,
     audioBuffer |-> Null, loadingStage |-> "idle", error |-> Null]

\* a click on one of the buttons bound to resetTour
resetTour ==
    /\ controls.reset
    /\ audioSourceRef' = StopCurrent
    /\ state' = ResetTourState(state)
    /\ controls' = Controls(state')
    /\ stale' = stale \cup InFlight
    /\ UNCHANGED <<audioContextRef, detached, pc, nRuns, text, prompt>>

\* a click on "Repetir"
Replay ==
    /\ controls.replay # Null
    /\ audioSourceRef' = PlayNarration(controls.replay).ref
    /\ detached' = PlayNarration(controls.replay).detached
    /\ UNCHANGED <<state, controls, audioContextRef, pc, nRuns, stale, text,
                   prompt>>

\* React commits the updates issued by a resumed run
Render ==
    /\ controls # Controls(state)
    /\ controls' = Controls(state)
    /\ UNCHANGED <<state, audioContextRef, audioSourceRef, detached, pc,
                   nRuns, stale, text, prompt>>

\* the current source node reaches the end of its buffer
SourceEnded ==
    /\ Playing(audioSourceRef) # <<>>
    /\ audioSourceRef' = StopCurrent
    /\ UNCHANGED <<state, controls, audioContextRef, detached, pc, nRuns, stale,
                   text, prompt>>

----------------------------------------------------------------------------

TypeOK ==
    /\ state.loadingStage \in Stages
    /\ pc \in [Runs -> PcValues]
    /\ nRuns \in 0..MaxRuns
    /\ stale \subseteq Runs
    /\ audioContextRef \in BOOLEAN
    /\ Len(audioSourceRef) <= 1

Next ==
    \/ handleFileUpload
    \/ \E r \in Runs : FileRead(r)
    \/ \E r \in Runs : Identified(r)
    \/ \E r \in Runs : Researched(r)
    \/ \E r \in Runs : Narrated(r)
    \/ \E r \in Runs : Decoded(r)
    \/ resetTour
    \/ Replay
    \/ Render
    \/ SourceEnded

Spec == Init /\ [][Next]_vars

\* the continuation of run r after the await it is suspended at
Resume(r) ==
    \/ FileRead(r)
    \/ Identified(r)
    \/ Researched(r)
    \/ Narrated(r)
    \/ Decoded(r)

\* every pending promise of every run is eventually settled
SpecFair == Init /\ [][Next]_vars /\ \A r \in Runs : WF_vars(Resume(r))

----------------------------------------------------------------------------
(* narrateHistory on its own: every text the pipeline can pass to it *)

InitNarrate ==
    /\ InitTour
    /\ text \in {NarrationText(NameChars(n), StoryChars(m)) :
                   n \in 0..MaxNameLen, m \in 0..MaxStoryLen}
    /\ prompt = <<>>

\* ai.models.generateContent({..., contents: [{parts: [{text: ...}]}]})
NarrateSend ==
    /\ prompt = <<>>
    /\ prompt' = NarrationPrompt(text)
    /\ UNCHANGED <<state, controls, audioContextRef, audioSourceRef, detached, pc,
                   nRuns, stale, text>>

SpecNarrate == InitNarrate /\ [][NarrateSend]_vars

----------------------------------------------------------------------------
(* Properties *)

\* run r resumes from its last await and returns normally
Completes(r) == pc[r] = "decodeAudioData" /\ pc'[r] = "done"

\* run r enters its catch block from the given await
FailsAt(r, at) == pc[r] = at /\ pc'[r] = "failed"

\* C1: a run in which the file read, the three capabilities and the audio
\* decoding all succeed ends in loadingStage ready with an audio buffer and
\* no error.
C1_SuccessfulRunEndsReady ==
    [][\A r \in Runs :
         Completes(r) =>
           /\ state'.loadingStage = "ready"
           /\ state'.audioBuffer # Null
           /\ state'.error = Null]_vars

\* C2: when a stage's capability fails, the state right after the failure is
\* handled is idle with an error and no field of a later stage is populated,
\* whatever state the run started from.
C2_FailureLeavesNoLaterField ==
    [][\A r \in Runs :
         /\ FailsAt(r, "identifyLandmark") =>
              /\ state'.loadingStage = "idle" /\ state'.error # Null
              /\ state'.landmark = Null
              /\ state'.history = Null
              /\ state'.audioBuffer = Null
         /\ FailsAt(r, "researchLandmark") =>
              /\ state'.loadingStage = "idle" /\ state'.error # Null
              /\ state'.history = Null
              /\ state'.audioBuffer = Null
         /\ (FailsAt(r, "narrateHistory") \/ FailsAt(r, "decodeAudioData")) =>
              /\ state'.loadingStage = "idle" /\ state'.error # Null
              /\ state'.audioBuffer = Null]_vars

\* C3: whenever error is set, image, landmark, history and audioBuffer are
\* all null.
C3_ErrorClearsContent ==
    state.error # Null =>
      /\ state.image = Null
      /\ state.landmark = Null
      /\ state.history = Null
      /\ state.audioBuffer = Null

\* C4: whenever error is set, loadingStage is idle.
C4_ErrorImpliesIdle ==
    state.error # Null => state.loadingStage = "idle"

NextStage ==
    [idle |-> "identifying", identifying |-> "researching",
     researching |-> "narrating", narrating |-> "ready", ready |-> "ready"]

\* C5: loadingStage changes only to the next stage of
\* idle -> identifying -> researching -> narrating -> ready, or back to idle.
C5_StagesStrictlyForward ==
    [][\/ state'.loadingStage = state.loadingStage
       \/ state'.loadingStage = "idle"
       \/ state'.loadingStage = NextStage[state.loadingStage]]_vars

\* C6: when a call of a run that was suspended at a reset returns or fails
\* after that reset, no field of the state changes and no playback starts.
C6_StaleResultDiscarded ==
    [][\A r \in stale :
         pc'[r] # pc[r] =>
           /\ state' = state
           /\ audioSourceRef' = audioSourceRef
           /\ detached' = detached]_vars

\* C7: handleFileUpload invoked while loadingStage is not idle changes no
\* field of the state and dispatches no call.
C7_UploadIgnoredWhenNotIdle ==
    [][(handleFileUpload /\ state.loadingStage # "idle") =>
         (state' = state /\ pc' = pc)]_vars

\* C8: at most one run is in flight at any time.
C8_AtMostOneRunInFlight == Cardinality(InFlight) <= 1

\* C9: the text sent to the speech model is at most 1000 characters long.
C9_PromptAtMostCap == Len(prompt) <= NarrationCap

\* C9, amended: the text sent to the speech model is the 48-character
\* instruction followed by the first 1000 characters of the text passed to
\* narrateHistory (all of it when it is shorter), so that at most 1000
\* characters of that text, and at most 1048 characters in all, are sent.
C9_TextPartAtMostCap ==
    prompt # <<>> =>
      /\ Len(prompt) - Len(Prefix) <= NarrationCap
      /\ Len(prompt) <= Len(Prefix) + NarrationCap
      /\ Len(prompt) - Len(Prefix) <= Len(text)
      /\ Len(text) <= NarrationCap => Len(prompt) - Len(Prefix) = Len(text)
      /\ \A i \in 1..Len(prompt) :
           prompt[i] = IF i <= Len(Prefix) THEN Prefix[i]
                       ELSE text[i - Len(Prefix)]

\* a text longer than the cap has been sent, cut to the cap
C9_Witness ==
    /\ Len(text) > NarrationCap
    /\ Len(prompt) = Len(Prefix) + NarrationCap

\* a call of resetTour in the current state would leave the state and the
\* current source node as they are
ResetChangesNothing ==
    /\ ResetTourState(state) = state
    /\ StopCurrent = audioSourceRef

\* C10: resetTour yields exactly the initial aggregate in one step, from
\* every state it is called in, and a second call right after it would
\* change nothing.
C10_ResetYieldsInitialAggregate ==
    [][resetTour =>
         /\ state' = InitialState
         /\ controls' = Controls(InitialState)
         /\ ResetChangesNothing']_vars

\* resetTour has run after a completed run whose narration was playing or
\* had played: the state is the initial aggregate again
C10_Witness ==
    /\ \E r \in Runs : pc[r] = "done"
    /\ audioSourceRef # <<>>
    /\ state = InitialState
    /\ controls = Controls(InitialState)

\* C11: after every call of playNarration, from a completed run or from the
\* replay button, exactly one node is playing and it is bound to the buffer
\* passed to the call; at no time is more than one node playing.  (A stop of
\* an already stopped node is part of StopCurrent and changes nothing.)
C11_AtMostOneActiveHandle ==
    [][/\ Len(ActiveNodes') <= 1
       /\ \A r \in Runs :
            Completes(r) => ActiveNodes' = <<StartedNode(BufferOf(r))>>
       /\ Replay => ActiveNodes' = <<StartedNode(controls.replay)>>]_vars

\* both runs have completed, run 2 first and run 1 after it, with no reset
\* since: the buffer of run 1 was played over the buffer of run 2 and is the
\* one node playing
C11_Witness ==
    /\ pc[1] = "done" /\ pc[2] = "done"
    /\ state.audioBuffer = BufferOf(1)
    /\ state.history = HistoryOf(2)
    /\ ActiveNodes = <<StartedNode(BufferOf(1))>>

\* C12: right after resetTour no node is playing, whether the current node
\* was playing, had already stopped or ended, or had never been created.
C12_ResetStopsPlayback ==
    [][resetTour => ActiveNodes' = <<>>]_vars

\* resetTour has run after the only run completed and started its narration:
\* the node of that narration is still the current one, and it is stopped
C12_Witness ==
    /\ pc[1] = "done"
    /\ nRuns = 1
    /\ state = InitialState
    /\ audioSourceRef = <<[buffer |-> BufferOf(1), playing |-> FALSE]>>
    /\ detached = <<>>

\* the call of identifyLandmark of run r ends without a payload that has all
\* the required fields: the request failed, or the payload was unparsable,
\* empty or incomplete
EndsWithoutCompletePayload(r) ==
    /\ pc[r] = "identifyLandmark"
    /\ pc'[r] # "identifyLandmark"
    /\ state'.landmark # LandmarkOf(r, "complete")

\* C13: an identification payload that is unparsable, empty or lacks a
\* required field aborts the run as an identification failure: loadingStage
\* returns to idle with error set, no landmark of the run is stored and
\* researchLandmark is not invoked.
C13_BadPayloadIsIdentifyFailure ==
    [][\A r \in Runs :
         EndsWithoutCompletePayload(r) =>
           /\ pc'[r] = "failed"
           /\ state'.loadingStage = "idle"
           /\ state'.error # Null
           /\ state'.landmark # LandmarkOf(r, "incomplete")]_vars

\* C14: the content fields are populated left to right: audioBuffer only
\* with history, history only with landmark, landmark only with image.
C14_FieldsPopulateLeftToRight ==
    /\ state.audioBuffer # Null => state.history # Null
    /\ state.history # Null => state.landmark # Null
    /\ state.landmark # Null => state.image # Null

\* run r fails in its narration stage: narrateHistory throws (request
\* failure or no audio payload), decodeBase64 throws or decodeAudioData
\* rejects
NarrationFails(r) ==
    FailsAt(r, "narrateHistory") \/ FailsAt(r, "decodeAudioData")

\* no node, playing or stopped, is bound to the buffer of run r
NeverPlayed(r) ==
    /\ \A i \in 1..Len(audioSourceRef) : audioSourceRef[i].buffer # BufferOf(r)
    /\ \A i \in 1..Len(detached) : detached[i].buffer # BufferOf(r)

\* C15: a failure of the narration stage aborts the run with no partial
\* narration: audioBuffer is null after the failure, the run never goes on to
\* ready and playNarration is never invoked for it.
C15_NarrationFailureLeavesNoAudio ==
    [][\A r \in Runs :
         /\ NarrationFails(r) =>
              /\ state'.audioBuffer = Null
              /\ state'.loadingStage = "idle"
              /\ NeverPlayed(r)'
         /\ pc[r] = "failed" =>
              /\ pc'[r] = "failed"
              /\ NeverPlayed(r)']_vars

\* the steps a run can take: from each await to the next one, in order, or
\* to the catch block
RunSteps ==
    {<<"unused", "fileToBase64">>}
      \cup {<<a, AfterAwait[a]>> : a \in Awaits}
      \cup {<<a, "failed">> : a \in Awaits}

\* C16: within one run the calls are made one at a time, in order and each
\* at most once: researchLandmark only when identifyLandmark of the same run
\* has returned a landmark, narrateHistory only when researchLandmark of the
\* same run has returned a history; a run that has recorded a failure makes
\* no further call, and a run that has returned takes no further step.
C16_StagesSequentialPerRun ==
    [][\A r \in Runs :
         /\ pc'[r] # pc[r] => <<pc[r], pc'[r]>> \in RunSteps
         /\ (pc'[r] # pc[r] /\ pc'[r] = "researchLandmark") =>
              /\ pc[r] = "identifyLandmark"
              /\ state'.landmark # Null /\ state'.landmark[1] = r
         /\ (pc'[r] # pc[r] /\ pc'[r] = "narrateHistory") =>
              /\ pc[r] = "researchLandmark"
              /\ state'.history = HistoryOf(r)
         /\ (state'.error # state.error /\ state'.error # Null
               /\ state'.error[1] = r) => pc'[r] = "failed"]_vars

\* run 1 has failed at researchLandmark, after its identification succeeded,
\* and has stopped there
C16_Witness ==
    /\ pc[1] = "failed"
    /\ state.error = MessageOf(1, "researchLandmark")
    /\ state.landmark # Null /\ state.landmark[1] = 1
    /\ state.history = Null

\* C17: whenever loadingStage is identifying, image is non-null and error is
\* null.
C17_IdentifyingHasImage ==
    state.loadingStage = "identifying" =>
      (state.image # Null /\ state.error = Null)

\* C17, amended: starting a run sets loadingStage to identifying and clears
\* image and error in one step, leaving the other fields as they are (the
\* image is stored later, when fileToBase64 has resolved); whenever
\* loadingStage is identifying, error is null.
C17_StartClearsImageAndError ==
    [][/\ nRuns' # nRuns =>
            /\ state'.loadingStage = "identifying"
            /\ state'.image = Null
            /\ state'.error = Null
            /\ state'.landmark = state.landmark
            /\ state'.history = state.history
            /\ state'.audioBuffer = state.audioBuffer
       /\ state'.loadingStage = "identifying" => state'.error = Null]_vars

\* a second run has been started from the error screen of the first: it is
\* identifying, its file is not read yet, and the error is gone
C17_Witness ==
    /\ pc[1] = "failed"
    /\ pc[2] = "fileToBase64"
    /\ stale = {}
    /\ state.loadingStage = "identifying"
    /\ state.image = Null
    /\ state.error = Null

\* C18: whenever a playback is active, loadingStage is ready, error is null
\* and the playing node is bound to the buffer stored in state.audioBuffer.
C18_PlaybackOnlyWhenReady ==
    \A i \in 1..Len(ActiveNodes) :
       /\ state.loadingStage = "ready"
       /\ state.error = Null
       /\ ActiveNodes[i].buffer = state.audioBuffer

\* the run that produced a non-null field value
RunOf(value) == value[1]

\* the runs whose results are on the screen
RunsInState ==
    {RunOf(state[f]) :
       f \in {g \in {"image", "landmark", "history", "audioBuffer"} :
                state[g] # Null}}

\* C19: the non-null fields among image, landmark, history and audioBuffer
\* were all produced by the same run.
C19_FieldsFromOneRun == Cardinality(RunsInState) <= 1

\* the stages in which a run is working
LoadingStages == {"identifying", "researching", "narrating"}

\* C20: when every pending call is eventually settled, every started run
\* eventually returns, and from any state whose loadingStage is identifying,
\* researching or narrating a state with loadingStage ready or idle is
\* eventually reached.
C20_LoadingEventuallyEnds ==
    /\ \A r \in Runs : (pc[r] \in Awaits) ~> (pc[r] \in {"done", "failed"})
    /\ (state.loadingStage \in LoadingStages)
         ~> (state.loadingStage \in {"ready", "idle"})

\* both runs have returned, the second one through the catch block, and the
\* pipeline is idle
C20_Witness ==
    /\ pc[1] = "done"
    /\ pc[2] = "failed"
    /\ state.loadingStage = "idle"
    /\ state.error = MessageOf(2, "narrateHistory")

====
